---------------------------- MODULE Spec2Model ----------------------------
(***************************************************************************)
(* A model of DiscordBotService (src/src/bot.ts, the OAuth-gated variant,  *)
(* lines 254-632): the start/stop lifecycle of the platform client and the *)
(* handling of one MessageCreate event by handleMessage, with every await  *)
(* of the code a separate step whose outcome the environment chooses.      *)
(*                                                                         *)
(* Text the code inspects character by character (message content,        *)
(* attachment content types, the ALLOWED_CHANNELS setting, channel ids) is *)
(* a sequence of one-character strings.  Values the code only passes on    *)
(* (ids, urls, file names, emails) are plain strings.                      *)
(***************************************************************************)
EXTENDS Naturals, Sequences, FiniteSets

\* ------------------------------------------------------------------ bounds

\* Attachments carried by one message.
MaxAtts == 2
\* Client objects the service may construct in one run of the lifecycle model.
MaxClients == 3
\* start()/stop() calls that may be in progress at the same time.
MaxCalls == 2

\* ------------------------------------------------------------ JS strings

\* null / undefined where a plain string is expected.
None == "<none>"
\* null / undefined where a character sequence is expected.
NoText == <<"<none>">>

WhiteSpace == {" ", "\t", "\n"}

UpperCase == <<"A","B","C","D","E","F","G","H","I","J","K","L","M",
               "N","O","P","Q","R","S","T","U","V","W","X","Y","Z">>
LowerCase == <<"a","b","c","d","e","f","g","h","i","j","k","l","m",
               "n","o","p","q","r","s","t","u","v","w","x","y","z">>

\* String.prototype.toLowerCase on one character.
LowerChar(c) ==
    IF \E k \in 1..Len(UpperCase) : UpperCase[k] = c
    THEN LowerCase[CHOOSE k \in 1..Len(UpperCase) : UpperCase[k] = c]
    ELSE c

ToLowerCase(s) == [k \in 1..Len(s) |-> LowerChar(s[k])]

\* String.prototype.startsWith
StartsWith(s, p) == Len(p) <= Len(s) /\ SubSeq(s, 1, Len(p)) = p

\* String.prototype.includes
Includes(s, p) ==
    \E k \in 0..Len(s) : k + Len(p) <= Len(s) /\ SubSeq(s, k + 1, k + Len(p)) = p

\* String.prototype.trim
Trim(s) ==
    IF \A k \in 1..Len(s) : s[k] \in WhiteSpace
    THEN <<>>
    ELSE LET a == CHOOSE k \in 1..Len(s) :
                    s[k] \notin WhiteSpace /\ \A j \in 1..(k - 1) : s[j] \in WhiteSpace
             b == CHOOSE k \in 1..Len(s) :
                    s[k] \notin WhiteSpace /\ \A j \in (k + 1)..Len(s) : s[j] \in WhiteSpace
         IN  SubSeq(s, a, b)

\* String.prototype.split on a one-character separator.
RECURSIVE Split(_, _)
Split(s, sep) ==
    IF \E k \in 1..Len(s) : s[k] = sep
    THEN LET k == CHOOSE k \in 1..Len(s) : s[k] = sep /\ \A j \in 1..(k - 1) : s[j] # sep
         IN  <<SubSeq(s, 1, k - 1)>> \o Split(SubSeq(s, k + 1, Len(s)), sep)
    ELSE <<s>>

\* Array.prototype.filter(Boolean) on an array of strings: drops the empty ones.
RECURSIVE FilterNonEmpty(_)
FilterNonEmpty(xs) ==
    IF xs = <<>> THEN <<>>
    ELSE (IF Head(xs) = <<>> THEN <<>> ELSE <<Head(xs)>>) \o FilterNonEmpty(Tail(xs))

\* x || d on a character sequence.
OrText(x, d) == IF x = NoText \/ x = <<>> THEN d ELSE x

\* x || d on a plain string.
OrStr(x, d) == IF x = None \/ x = "" THEN d ELSE x

\* ------------------------------------------------------- string literals

RegisterCmd == <<"!","r","e","g","i","s","t","e","r">>
StatusCmd == <<"!","s","t","a","t","u","s">>
WhoamiCmd == <<"!","w","h","o","a","m","i">>
CommandPrefix == <<"!">>
ImageJpeg == <<"i","m","a","g","e","/","j","p","e","g">>
ImagePng == <<"i","m","a","g","e","/","p","n","g">>
ImageWebp == <<"i","m","a","g","e","/","w","e","b","p">>
ImageGif == <<"i","m","a","g","e","/","g","i","f">>
DefaultReceiverUrl == "http://localhost:3000/api/receiver/image"

\* --------------------------------------------------------------- state

VARIABLES
    env,          \* process.env: the four settings the service reads
    client,       \* this.client: 0 (null) or the id of a Client object
    isRunning,    \* this.isRunning
    clientState,  \* each Client object: "none", "created", "connecting", "live", "failed", "destroyed"
    listeners,    \* each Client object: MessageCreate callbacks registered on it
    call,         \* each start()/stop() call in progress: its position and result
    dispatched,   \* handleMessage invocations caused by the last inbound message
    hm            \* each handleMessage invocation: its position, message and effects

vars == <<env, client, isRunning, clientState, listeners, call, dispatched, hm>>
lifecycleVars == <<client, isRunning, clientState, listeners, call, dispatched>>


\* ---------------------------------------------------------- configuration

\* !x on a plain string: null, undefined and '' are falsy.
Falsy(x) == x = None \/ x = ""

\* Array.prototype.map(s => s.trim())
MapTrim(xs) == [k \in 1..Len(xs) |-> Trim(xs[k])]

\* The config getter: every read takes the settings from process.env.
Config ==
    [BOT_TOKEN        |-> env.DISCORD_BOT_TOKEN,
     RECEIVER_URL     |-> OrStr(env.RECEIVER_URL, DefaultReceiverUrl),
     RECEIVER_TOKEN   |-> OrStr(env.IMAGE_RECEIVER_TOKEN, ""),
     ALLOWED_CHANNELS |-> FilterNonEmpty(MapTrim(Split(OrText(env.ALLOWED_CHANNELS, <<>>), ",")))]

\* validateConfig: "ok", or the Error it throws.
ValidateConfig ==
    IF Falsy(Config.BOT_TOKEN) THEN "Missing DISCORD_BOT_TOKEN"
    ELSE IF Falsy(Config.RECEIVER_TOKEN) THEN "Missing IMAGE_RECEIVER_TOKEN"
    ELSE IF Falsy(Config.RECEIVER_URL) THEN "Missing RECEIVER_URL"
    ELSE "ok"

\* Array.prototype.includes
ArrayIncludes(xs, x) == \E k \in 1..Len(xs) : xs[k] = x

\* ------------------------------------------------------- inbound messages

\* Values of the ALLOWED_CHANNELS setting: unset, one id, two ids with blanks
\* around them, and separators only.
AllowedChannelsSettings ==
    { NoText, <<"1">>, <<" ","1"," ",",","2">>, <<" ",","," ">> }

ChannelIds == { <<"1">>, <<"2">> }
GuildIds == { None, "guild-7" }

Human == [id |-> "1001", username |-> "ann", bot |-> FALSE]
Robot == [id |-> "2002", username |-> "relay", bot |-> TRUE]
Authors == { Human, Robot }

Contents ==
    { <<>>,
      <<" ">>,
      <<"h","i">>,
      <<" ","h","i"," ">>,
      RegisterCmd,
      RegisterCmd \o <<" ">>,
      RegisterCmd \o <<" ","m","e">>,
      <<" ">> \o RegisterCmd,
      StatusCmd,
      StatusCmd \o <<" ">>,
      WhoamiCmd,
      <<"!","h","e","l","p">>,
      <<" ","!","h","e","l","p">> }

PngAtt  == [url |-> "cdn/1", name |-> "cat.png", contentType |-> ImagePng]
JpegAtt == [url |-> "cdn/2", name |-> None,
            contentType |-> <<"I","M","A","G","E","/","J","P","E","G",";","q","=","1">>]
PdfAtt  == [url |-> "cdn/3", name |-> "doc.pdf",
            contentType |-> <<"a","p","p","l","i","c","a","t","i","o","n","/","p","d","f">>]
RawAtt  == [url |-> "cdn/4", name |-> "", contentType |-> NoText]
AttachmentSamples == { PngAtt, JpegAtt, PdfAtt, RawAtt }

\* message.attachments: up to MaxAtts distinct attachments, in order.
AttachmentLists ==
    UNION { { a \in [1..n -> AttachmentSamples] :
                \A j, k \in 1..n : j # k => a[j] # a[k] } : n \in 0..MaxAtts }

Messages ==
    [id : {"m-1"}, author : Authors, guildId : GuildIds, channelId : ChannelIds,
     content : Contents, attachments : AttachmentLists]

\* ------------------------------------------------- receiver and platform

NetworkError == [kind |-> "networkError"]
\* A body that response.json() cannot parse, and the JSON value null.
Malformed == [parsed |-> "malformed"]
JsonNull == [parsed |-> "null"]

\* What the registration-status endpoint may answer (or the fetch rejects).
StatusBodies ==
    [success : BOOLEAN, registered : BOOLEAN, email : {None, "", "ann@example.com"}]
StatusResponses ==
    { NetworkError } \cup
    [kind : {"response"}, ok : BOOLEAN, body : {Malformed, JsonNull}] \cup
    [kind : {"response"}, ok : BOOLEAN, body : StatusBodies]

\* What the attachment's CDN may answer: the fetch rejects, a non-2xx status,
\* a body that cannot be read, or the bytes with or without a content type.
AttachmentResponses ==
    { NetworkError } \cup
    [kind : {"response"}, ok : BOOLEAN, readable : BOOLEAN,
     contentType : {None, "image/png"}]

\* What the receiver may answer to a POST: json is the parsed body, reduced to
\* unparseable, falsy (null, false, 0) or truthy.
ReceiverResponses ==
    { NetworkError } \cup
    [kind : {"response"}, ok : BOOLEAN, json : {"unparseable", "falsy", "truthy"}]

\* What the OAuth-initiation endpoint may answer.
OAuthBodies ==
    [success : BOOLEAN, authUrl : {None, "https://auth/x"}, error : {None, "expired"}]
OAuthResponses ==
    { NetworkError } \cup
    [kind : {"response"}, ok : BOOLEAN, body : {Malformed, JsonNull}] \cup
    [kind : {"response"}, ok : BOOLEAN, body : OAuthBodies]


\* ------------------------------------------------ handleMessage: frames

\* Concurrent handleMessage invocations the model follows.
Handlers == {1}

NoMsg == [id |-> None]

\* An invocation that has not begun.  errors records the errors thrown and the
\* catch block each one reached.  log records, in order, what the
\* invocation has done that can be seen from outside it or that decides a later
\* step: the calls of the forwarding and command routines, the outbound HTTP
\* requests, the message.reply calls, and the values getUserEmail and
\* forwardAttachment returned.  settled counts the awaited promises (requests
\* and replies) that have settled.
IdleFrame ==
    [pc |-> "idle", msg |-> NoMsg, i |-> 0, userEmail |-> None,
     log |-> <<>>, errors |-> <<>>, filtered |-> FALSE, result |-> "pending",
     settled |-> 0]

Reply(f, text) == [f EXCEPT !.log = Append(@, [ev |-> "reply", text |-> text])]
Request(f, r) == [f EXCEPT !.log = Append(@, [ev |-> "request", req |-> r])]
Called(f, c) == [f EXCEPT !.log = Append(@, [ev |-> "call", call |-> c])]
Returned(f, fn, v) ==
    [f EXCEPT !.log = Append(@, [ev |-> "return", fn |-> fn, value |-> v])]
At(f, pc) == [f EXCEPT !.pc = pc]
\* The promise the invocation awaits has settled: the invocation resumes.
Settled(f) == [f EXCEPT !.settled = @ + 1]

\* handleMessage returns: its promise resolves.
Return(f) == [f EXCEPT !.pc = "done", !.result = "resolved"]

\* An error reaches handleMessage's own catch block.
HandleMessageCatchRethrows(f) == [f EXCEPT !.pc = "done", !.result = "rejected"]
HandleMessageCatch(f) == [f EXCEPT !.pc = "done", !.result = "resolved"]

\* ----------------------------------------------- handleMessage: decisions

IgnoredAuthorNever(m) == FALSE
IgnoredAuthor(m) == m.author.bot

IsRegisterCommand(content) == StartsWith(content, RegisterCmd)

IsStatusCommand(content) == content = StatusCmd \/ content = WhoamiCmd

ChannelNotAllowedInDmToo(m) ==
    /\ Len(Config.ALLOWED_CHANNELS) > 0
    /\ ~ArrayIncludes(Config.ALLOWED_CHANNELS, m.channelId)
ChannelNotAllowed(m) ==
    /\ ~Falsy(m.guildId)
    /\ Len(Config.ALLOWED_CHANNELS) > 0
    /\ ~ArrayIncludes(Config.ALLOWED_CHANNELS, m.channelId)

IsSupportedImage(att) ==
    LET lower == ToLowerCase(OrText(att.contentType, <<>>))
    IN  \/ Includes(lower, ImageJpeg)
        \/ Includes(lower, ImagePng)
        \/ Includes(lower, ImageWebp)
        \/ Includes(lower, ImageGif)

HasText(content) == ~(content = <<>>) /\ Len(Trim(content)) > 0

RegistrationHasArgumentsUntrimmed(content) == content # RegisterCmd
RegistrationHasArguments(content) == Trim(content) # RegisterCmd

NotRegisteredNeverChecked(userEmail) == FALSE
NotRegistered(userEmail) == Falsy(userEmail)

\* fetch rejects, response.json() rejects, or a field of null is read.
LookupThrows(r) == r.kind = "networkError" \/ r.body \in {Malformed, JsonNull}

GetUserEmailIgnoresHttpStatus(r) ==
    IF r.kind = "networkError" THEN None
    ELSE IF r.body = Malformed THEN None
    ELSE IF r.body = JsonNull THEN None
    ELSE IF r.body.success /\ r.body.registered /\ ~Falsy(r.body.email)
         THEN r.body.email
         ELSE None

\* getUserEmail's result for a response of the status endpoint.
GetUserEmail(r) ==
    IF r.kind = "networkError" THEN None
    ELSE IF r.body = Malformed THEN None
    ELSE IF r.body = JsonNull THEN None
    ELSE IF r.ok /\ r.body.success /\ r.body.registered /\ ~Falsy(r.body.email)
         THEN r.body.email
         ELSE None

\* Whether forwardAttachment gets the attachment's bytes from a CDN response.
AttachmentFetched(r) == r.kind = "response" /\ r.ok /\ r.readable

\* The POST rejects or its body is not JSON.
ReceiverThrows(r) == r.kind = "networkError" \/ r.json = "unparseable"

\* forwardAttachment's and forwardText's result for a receiver response.
ReceiverAccepted(r) ==
    r.kind = "response" /\ r.json # "unparseable" /\ r.ok /\ r.json = "truthy"

\* -------------------------------------------- handleMessage: control flow

\* An error thrown at step `at` is caught by the catch block of routine `by`.
Threw(f, at, by) == [f EXCEPT !.errors = Append(@, [at |-> at, by |-> by])]

\* forwardAttachment is called for attachment j: up to its first await, the
\* status GET of getUserEmail.
CallForwardAttachment(f, j) ==
    LET att == f.msg.attachments[j]
        g == Called([f EXCEPT !.i = j],
                    [fn |-> "forwardAttachment", url |-> att.url,
                     name |-> OrStr(att.name, None)])
    IN  At(Request(g, [kind |-> "status", discordId |-> f.msg.author.id]), "lookup")

\* The for loop over the attachments from index j on, up to the next await.
RECURSIVE AttachmentLoop(_, _)
AttachmentLoop(f, j) ==
    IF j > Len(f.msg.attachments) THEN Return(f)
    ELSE IF IsSupportedImage(f.msg.attachments[j]) THEN CallForwardAttachment(f, j)
    ELSE AttachmentLoop(f, j + 1)

AfterForwardReplyNotAwaited(f, ok) ==
    LET g == Returned(f, "forwardAttachment", ok)
    IN  IF Falsy(g.msg.guildId)
        THEN AttachmentLoop(Reply(g, IF ok THEN "success-ack" ELSE "failure-apology"),
                            g.i + 1)
        ELSE AttachmentLoop(g, g.i + 1)

\* forwardAttachment has returned ok for attachment f.i.
AfterForward(f, ok) ==
    LET g == Returned(f, "forwardAttachment", ok)
    IN  IF Falsy(g.msg.guildId)
        THEN At(Reply(g, IF ok THEN "success-ack" ELSE "failure-apology"), "ackReply")
        ELSE AttachmentLoop(g, g.i + 1)

\* forwardText, up to its await.
ForwardText(f) ==
    LET content == Trim(OrText(f.msg.content, <<>>))
        g == Called(f, [fn |-> "forwardText"])
    IN  IF content = <<>> THEN Return(g)
        ELSE At(Request(g, [kind |-> "text", text |-> content,
                            discordMessageId |-> f.msg.id,
                            discordChannelId |-> f.msg.channelId,
                            discordAuthorId |-> f.msg.author.id,
                            token |-> Config.RECEIVER_TOKEN]), "textPost")

\* handleRegistrationCommand, up to its first await.
HandleRegistrationCommand(f) ==
    LET g == Called(f, [fn |-> "handleRegistrationCommand"])
    IN  IF RegistrationHasArguments(f.msg.content)
        THEN At(Reply(g, "register-rejection"), "regReply")
        ELSE At(Request(g, [kind |-> "oauthInit",
                            discordId |-> f.msg.author.id,
                            discordUsername |-> f.msg.author.username]), "oauthInit")

\* handleStatusCommand, up to its first await.
HandleStatusCommand(f) ==
    LET g == Called(f, [fn |-> "handleStatusCommand"])
    IN  At(Request(g, [kind |-> "status", discordId |-> f.msg.author.id]), "statusQuery")

\* handleMessage from its entry up to its first await.
HandleMessage(f) ==
    LET m == f.msg
    IN  IF IgnoredAuthor(m) THEN Return(f)
        ELSE IF IsRegisterCommand(m.content) THEN HandleRegistrationCommand(f)
        ELSE IF IsStatusCommand(m.content) THEN HandleStatusCommand(f)
        ELSE IF ChannelNotAllowed(m) THEN Return([f EXCEPT !.filtered = TRUE])
        ELSE IF Len(m.attachments) > 0 THEN AttachmentLoop(f, 1)
        ELSE IF HasText(m.content)
             THEN (IF StartsWith(m.content, CommandPrefix) THEN Return(f)
                   ELSE ForwardText(f))
        ELSE Return(f)


\* ------------------------------------------------ handleMessage: actions

\* Some live client has the MessageCreate callback registered.
Listening == \E k \in 1..MaxClients : clientState[k] = "live" /\ listeners[k] > 0

\* The platform emits MessageCreate with message m: handleMessage runs up to
\* its first await.
MessageCreateAmong(h, ms) ==
    /\ Listening
    /\ hm[h].pc = "idle"
    /\ \E m \in ms : hm' = [hm EXCEPT ![h] = HandleMessage([hm[h] EXCEPT !.msg = m])]
    /\ UNCHANGED <<env, lifecycleVars>>

MessageCreate(h) == MessageCreateAmong(h, Messages)

\* getUserEmail's fetch settles inside forwardAttachment: the register prompt
\* when there is no email, else the fetch of the attachment.
LookupResponds(h) ==
    /\ hm[h].pc = "lookup"
    /\ \E r \in StatusResponses :
         LET g == IF LookupThrows(r) THEN Threw(Settled(hm[h]), "lookup", "getUserEmail") ELSE Settled(hm[h])
             f == Returned([g EXCEPT !.userEmail = GetUserEmail(r)],
                           "getUserEmail", GetUserEmail(r))
         IN  hm' = [hm EXCEPT ![h] =
                 IF NotRegistered(f.userEmail)
                 THEN At(Reply(f, "register-prompt"), "promptReply")
                 ELSE At(Request(f, [kind |-> "attachment",
                                     url |-> f.msg.attachments[f.i].url]), "attFetch")]
    /\ UNCHANGED <<env, lifecycleVars>>

\* The register prompt settles: return false, or the catch returns false.
PromptReplySettles(h) ==
    /\ hm[h].pc = "promptReply"
    /\ \E sent \in BOOLEAN :
         hm' = [hm EXCEPT ![h] =
                 IF sent THEN AfterForward(Settled(hm[h]), FALSE)
                 ELSE AfterForward(Threw(Settled(hm[h]), "promptReply", "forwardAttachment"), FALSE)]
    /\ UNCHANGED <<env, lifecycleVars>>

\* The attachment fetch settles: the upload POST, or false through the catch.
AttachmentResponds(h) ==
    /\ hm[h].pc = "attFetch"
    /\ \E r \in AttachmentResponses :
         LET f == Settled(hm[h])
             att == f.msg.attachments[f.i]
         IN  hm' = [hm EXCEPT ![h] =
                 IF AttachmentFetched(r)
                 THEN At(Request(f, [kind |-> "upload",
                                     file |-> OrStr(OrStr(att.name, None), "image"),
                                     fileType |-> OrStr(r.contentType, "application/octet-stream"),
                                     source |-> "discord",
                                     discordMessageId |-> f.msg.id,
                                     discordChannelId |-> f.msg.channelId,
                                     discordAuthorId |-> f.msg.author.id,
                                     userEmail |-> f.userEmail,
                                     token |-> Config.RECEIVER_TOKEN]), "upload")
                 ELSE AfterForward(Threw(f, "attFetch", "forwardAttachment"), FALSE)]
    /\ UNCHANGED <<env, lifecycleVars>>

\* The upload POST settles: forwardAttachment returns.
UploadResponds(h) ==
    /\ hm[h].pc = "upload"
    /\ \E r \in ReceiverResponses :
         hm' = [hm EXCEPT ![h] =
                 IF ReceiverThrows(r)
                 THEN AfterForward(Threw(Settled(hm[h]), "upload", "forwardAttachment"), FALSE)
                 ELSE AfterForward(Settled(hm[h]), ReceiverAccepted(r))]
    /\ UNCHANGED <<env, lifecycleVars>>

\* The DM acknowledgment settles: the loop goes on, or the error leaves the
\* loop for handleMessage's catch.
AckReplySettles(h) ==
    /\ hm[h].pc = "ackReply"
    /\ \E sent \in BOOLEAN :
         hm' = [hm EXCEPT ![h] =
                 IF sent THEN AttachmentLoop(Settled(hm[h]), Settled(hm[h]).i + 1)
                 ELSE HandleMessageCatch(Threw(Settled(hm[h]), "ackReply", "handleMessage"))]
    /\ UNCHANGED <<env, lifecycleVars>>

\* forwardText's POST settles: handleMessage returns without a reply.
TextResponds(h) ==
    /\ hm[h].pc = "textPost"
    /\ \E r \in ReceiverResponses :
         hm' = [hm EXCEPT ![h] =
                 IF ReceiverThrows(r) THEN Return(Threw(Settled(hm[h]), "textPost", "forwardText"))
                 ELSE Return(Settled(hm[h]))]
    /\ UNCHANGED <<env, lifecycleVars>>

\* The OAuth-initiation POST settles: the link, the server's error, or the
\* catch block's reply.
OAuthInitResponds(h) ==
    /\ hm[h].pc = "oauthInit"
    /\ \E r \in OAuthResponses :
         hm' = [hm EXCEPT ![h] =
                 IF r.kind = "networkError" \/ r.body \in {Malformed, JsonNull}
                 THEN At(Reply(Threw(Settled(hm[h]), "oauthInit", "handleRegistrationCommand"),
                               "oauth-technical-error"), "regCatchReply")
                 ELSE IF r.ok /\ r.body.success /\ ~Falsy(r.body.authUrl)
                 THEN At(Reply(Settled(hm[h]), "oauth-link"), "regReply")
                 ELSE At(Reply(Settled(hm[h]), "oauth-failed"), "regReply")]
    /\ UNCHANGED <<env, lifecycleVars>>

\* A reply made in handleRegistrationCommand's try block settles.
RegReplySettles(h) ==
    /\ hm[h].pc = "regReply"
    /\ \E sent \in BOOLEAN :
         hm' = [hm EXCEPT ![h] =
                 IF sent THEN Return(Settled(hm[h]))
                 ELSE At(Reply(Threw(Settled(hm[h]), "regReply", "handleRegistrationCommand"),
                               "oauth-technical-error"), "regCatchReply")]
    /\ UNCHANGED <<env, lifecycleVars>>

\* The reply made in handleRegistrationCommand's catch block settles: its
\* rejection leaves the command handler and reaches handleMessage's catch.
RegCatchReplySettles(h) ==
    /\ hm[h].pc = "regCatchReply"
    /\ \E sent \in BOOLEAN :
         hm' = [hm EXCEPT ![h] =
                 IF sent THEN Return(Settled(hm[h]))
                 ELSE HandleMessageCatch(Threw(Settled(hm[h]), "regCatchReply", "handleMessage"))]
    /\ UNCHANGED <<env, lifecycleVars>>

\* handleStatusCommand's fetch settles.
StatusQueryResponds(h) ==
    /\ hm[h].pc = "statusQuery"
    /\ \E r \in StatusResponses :
         hm' = [hm EXCEPT ![h] =
                 IF r.kind = "networkError" \/ r.body \in {Malformed, JsonNull}
                 THEN At(Reply(Threw(Settled(hm[h]), "statusQuery", "handleStatusCommand"),
                               "status-unavailable"), "statusCatchReply")
                 ELSE IF r.ok /\ r.body.success /\ r.body.registered
                 THEN At(Reply(Settled(hm[h]), "status-active"), "statusReply")
                 ELSE At(Reply(Settled(hm[h]), "status-not-registered"), "statusReply")]
    /\ UNCHANGED <<env, lifecycleVars>>

\* A reply made in handleStatusCommand's try block settles.
StatusReplySettles(h) ==
    /\ hm[h].pc = "statusReply"
    /\ \E sent \in BOOLEAN :
         hm' = [hm EXCEPT ![h] =
                 IF sent THEN Return(Settled(hm[h]))
                 ELSE At(Reply(Threw(Settled(hm[h]), "statusReply", "handleStatusCommand"),
                               "status-unavailable"), "statusCatchReply")]
    /\ UNCHANGED <<env, lifecycleVars>>

\* The reply made in handleStatusCommand's catch block settles.
StatusCatchReplySettles(h) ==
    /\ hm[h].pc = "statusCatchReply"
    /\ \E sent \in BOOLEAN :
         hm' = [hm EXCEPT ![h] =
                 IF sent THEN Return(Settled(hm[h]))
                 ELSE HandleMessageCatch(Threw(Settled(hm[h]), "statusCatchReply", "handleMessage"))]
    /\ UNCHANGED <<env, lifecycleVars>>


\* ------------------------------------------------------------ lifecycle

Calls == 1..MaxCalls
ClientIds == 1..MaxClients

\* n tells one call from the next call made in the same slot.
IdleCall == [op |-> "none", pc |-> "idle", cl |-> 0, result |-> "none", n |-> 0]

NewCall(c, op, pc, cl, result) ==
    [op |-> op, pc |-> pc, cl |-> cl, result |-> result, n |-> 1 - call[c].n]

\* A call slot is free when no start() or stop() is running in it.
Free(c) == call[c].pc \in {"idle", "returned", "threw"}

\* Client objects constructed so far.
Constructed == { k \in ClientIds : clientState[k] # "none" }

\* setupEventHandlers on this.client = cl: registers one MessageCreate callback.
SetupEventHandlers(ls, cl) == IF cl = 0 THEN ls ELSE [ls EXCEPT ![cl] = @ + 1]

\* start(), up to the await of client.login.
Start(c) ==
    /\ Free(c)
    /\ IF isRunning
       THEN /\ call' = [call EXCEPT ![c] =
                   NewCall(c, "start", "returned", 0, "already-running")]
            /\ UNCHANGED <<client, clientState, listeners>>
       ELSE IF ValidateConfig # "ok"
       THEN /\ call' = [call EXCEPT ![c] =
                   NewCall(c, "start", "threw", 0, ValidateConfig)]
            /\ UNCHANGED <<client, clientState, listeners>>
       ELSE /\ Cardinality(Constructed) < MaxClients
            /\ LET id == Cardinality(Constructed) + 1
               IN  /\ client' = id
                   /\ listeners' = SetupEventHandlers(listeners, id)
                   /\ clientState' = [clientState EXCEPT ![id] = "connecting"]
                   /\ call' = [call EXCEPT ![c] = NewCall(c, "start", "login", id, "none")]
    /\ UNCHANGED <<env, isRunning, dispatched, hm>>

\* client.login settles: isRunning is set, or the error is logged and rethrown.
LoginSettles(c) ==
    /\ call[c].pc = "login"
    /\ \E ok \in BOOLEAN :
         LET cl == call[c].cl
         IN  IF ok
             THEN /\ isRunning' = TRUE
                  /\ clientState' = [clientState EXCEPT ![cl] =
                         IF @ = "connecting" THEN "live" ELSE @]
                  /\ call' = [call EXCEPT ![c].pc = "returned", ![c].result = "started"]
             ELSE /\ isRunning' = isRunning
                  /\ clientState' = [clientState EXCEPT ![cl] =
                         IF @ = "connecting" THEN "failed" ELSE @]
                  /\ call' = [call EXCEPT ![c].pc = "threw", ![c].result = "login failed"]
    /\ UNCHANGED <<env, client, listeners, dispatched, hm>>

\* stop(), up to the await of client.destroy.
Stop(c) ==
    /\ Free(c)
    /\ IF ~isRunning \/ client = 0
       THEN call' = [call EXCEPT ![c] = NewCall(c, "stop", "returned", 0, "not-running")]
       ELSE call' = [call EXCEPT ![c] = NewCall(c, "stop", "destroy", client, "none")]
    /\ UNCHANGED <<env, client, isRunning, clientState, listeners, dispatched, hm>>

\* client.destroy settles: the fields are cleared, or the error is logged and
\* swallowed with the fields as they were.
DestroySettles(c) ==
    /\ call[c].pc = "destroy"
    /\ \E ok \in BOOLEAN :
         LET cl == call[c].cl
         IN  IF ok
             THEN /\ client' = 0
                  /\ isRunning' = FALSE
                  /\ clientState' = [clientState EXCEPT ![cl] = "destroyed"]
                  /\ call' = [call EXCEPT ![c].pc = "returned", ![c].result = "stopped"]
             ELSE /\ UNCHANGED <<client, isRunning, clientState>>
                  /\ call' = [call EXCEPT ![c].pc = "returned", ![c].result = "destroy failed"]
    /\ UNCHANGED <<env, listeners, dispatched, hm>>

\* The platform delivers one inbound message to every live client, which runs
\* each MessageCreate callback registered on it.
Deliver ==
    /\ LET live == { k \in ClientIds : clientState[k] = "live" }
           RECURSIVE Sum(_)
           Sum(S) == IF S = {} THEN 0
                     ELSE LET k == CHOOSE k \in S : TRUE
                          IN  listeners[k] + Sum(S \ {k})
       IN  dispatched' = Sum(live)
    /\ UNCHANGED <<env, client, isRunning, clientState, listeners, call, hm>>

\* -------------------------------------------------------- specifications

\* The settings of a process whose validateConfig has passed.
ValidEnvs ==
    [DISCORD_BOT_TOKEN : {"bot-token"}, IMAGE_RECEIVER_TOKEN : {"secret"},
     RECEIVER_URL : {None}, ALLOWED_CHANNELS : AllowedChannelsSettings]

\* The settings a process may be launched with.
AnyEnvs ==
    [DISCORD_BOT_TOKEN : {None, "bot-token"}, IMAGE_RECEIVER_TOKEN : {None, "", "secret"},
     RECEIVER_URL : {None, "https://r.example/api/receiver/image"},
     ALLOWED_CHANNELS : {NoText}]

\* Message handling: the service has been started once (one live client with
\* its one callback) and no handleMessage invocation has begun.
Init ==
    /\ env \in ValidEnvs
    /\ client = 1
    /\ isRunning = TRUE
    /\ clientState = [k \in ClientIds |-> IF k = 1 THEN "live" ELSE "none"]
    /\ listeners = [k \in ClientIds |-> IF k = 1 THEN 1 ELSE 0]
    /\ call = [c \in Calls |-> IdleCall]
    /\ dispatched = 0
    /\ hm = [h \in Handlers |-> IdleFrame]

Next ==
    \E h \in Handlers :
        \/ MessageCreate(h)
        \/ LookupResponds(h)
        \/ PromptReplySettles(h)
        \/ AttachmentResponds(h)
        \/ UploadResponds(h)
        \/ AckReplySettles(h)
        \/ TextResponds(h)
        \/ OAuthInitResponds(h)
        \/ RegReplySettles(h)
        \/ RegCatchReplySettles(h)
        \/ StatusQueryResponds(h)
        \/ StatusReplySettles(h)
        \/ StatusCatchReplySettles(h)

Spec == Init /\ [][Next]_vars

\* Lifecycle: the service as constructed (client null, isRunning false).
LifecycleInit ==
    /\ env \in AnyEnvs
    /\ client = 0
    /\ isRunning = FALSE
    /\ clientState = [k \in ClientIds |-> "none"]
    /\ listeners = [k \in ClientIds |-> 0]
    /\ call = [c \in Calls |-> IdleCall]
    /\ dispatched = 0
    /\ hm = [h \in Handlers |-> IdleFrame]

LifecycleNext ==
    \/ \E c \in Calls : Start(c) \/ LoginSettles(c) \/ Stop(c) \/ DestroySettles(c)
    \/ Deliver

LifecycleSpec == LifecycleInit /\ [][LifecycleNext]_vars


\* ---------------------------------------------- what an invocation has done

Replies(f) == SelectSeq(f.log, LAMBDA e : e.ev = "reply")
Requests(f) == SelectSeq(f.log, LAMBDA e : e.ev = "request")
RequestsOfKind(f, kind) == SelectSeq(f.log, LAMBDA e : e.ev = "request" /\ e.req.kind = kind)
ForwardAttachmentCalls(f) ==
    SelectSeq(f.log, LAMBDA e : e.ev = "call" /\ e.call.fn = "forwardAttachment")
ForwardCalls(f) ==
    SelectSeq(f.log, LAMBDA e : e.ev = "call" /\ e.call.fn \in {"forwardAttachment", "forwardText"})
ForwardAttachmentReturns(f) ==
    SelectSeq(f.log, LAMBDA e : e.ev = "return" /\ e.fn = "forwardAttachment")

Began(h) == hm[h].pc # "idle"
Finished(h) == hm[h].pc = "done"

\* The vocabulary of the claims, stated on the message alone.
IsDm(m) == m.guildId = None
IsCommand(m) ==
    StartsWith(m.content, RegisterCmd) \/ m.content = StatusCmd \/ m.content = WhoamiCmd
\* The samples whose declared content type is JPEG, PNG, WEBP or GIF.
DeclaredImage(att) == att \in {PngAtt, JpegAtt}
DeclaredImages(m) == SelectSeq(m.attachments, DeclaredImage)
\* The channel ids each sample of the ALLOWED_CHANNELS setting lists.
AllowList ==
    IF env.ALLOWED_CHANNELS = <<"1">> THEN { <<"1">> }
    ELSE IF env.ALLOWED_CHANNELS = <<" ","1"," ",",","2">> THEN { <<"1">>, <<"2">> }
    ELSE {}
FilterApplies(m) == ~IsDm(m) /\ AllowList # {} /\ m.channelId \notin AllowList

\* ------------------------------------------------------------------ claims

\* C1: a non-bot direct message with exactly one image attachment gets exactly
\* one reply, the acknowledgment when forwardAttachment returned true and the
\* apology when it returned false; the same message in a guild channel that
\* passes the allow-list gets no reply.
C1_OneReplyInDmNoneInGuild ==
    \A h \in Handlers :
        LET f == hm[h]
        IN  ( /\ Finished(h)
              /\ ~f.msg.author.bot
              /\ ~IsCommand(f.msg)
              /\ ~FilterApplies(f.msg)
              /\ Len(f.msg.attachments) = 1
              /\ DeclaredImage(f.msg.attachments[1]) )
            => IF IsDm(f.msg)
               THEN /\ Len(ForwardAttachmentReturns(f)) = 1
                    /\ Len(Replies(f)) = 1
                    /\ Replies(f)[1].text =
                         IF ForwardAttachmentReturns(f)[1].value
                         THEN "success-ack" ELSE "failure-apology"
               ELSE Replies(f) = <<>>

\* C2: the attachment fetch and the upload POST are issued only right after
\* getUserEmail returned an email in the same forwardAttachment call, and the
\* upload carries that email; when getUserEmail returns null the call sends the
\* register prompt, issues no further request and returns false.
C2_ForwardGatedOnRegistration ==
    \A h \in Handlers :
        LET f == hm[h]
            log == f.log
        IN  \A k \in 1..Len(log) :
              /\ (log[k].ev = "request" /\ log[k].req.kind = "attachment")
                 => /\ k > 3
                    /\ log[k - 1].ev = "return" /\ log[k - 1].fn = "getUserEmail"
                    /\ log[k - 1].value \notin {None, ""}
                    /\ log[k - 2].ev = "request" /\ log[k - 2].req.kind = "status"
                    /\ log[k - 3].ev = "call" /\ log[k - 3].call.fn = "forwardAttachment"
                    /\ log[k].req.url = log[k - 3].call.url
              /\ (log[k].ev = "request" /\ log[k].req.kind = "upload")
                 => /\ k > 4
                    /\ log[k - 1].ev = "request" /\ log[k - 1].req.kind = "attachment"
                    /\ log[k - 2].ev = "return" /\ log[k - 2].fn = "getUserEmail"
                    /\ log[k].req.userEmail = log[k - 2].value
              /\ ( /\ log[k].ev = "return" /\ log[k].fn = "getUserEmail"
                   /\ log[k].value \in {None, ""} )
                 => /\ Len(log) > k
                    /\ log[k + 1].ev = "reply" /\ log[k + 1].text = "register-prompt"
                    /\ Len(log) > k + 1
                       => /\ log[k + 2].ev = "return"
                          /\ log[k + 2].fn = "forwardAttachment"
                          /\ log[k + 2].value = FALSE

\* C2's case: in one guild message the first image's author lookup found no
\* email (prompt sent) and the second image's lookup found one (upload issued).
C2_Witness ==
    \E h \in Handlers :
        /\ Finished(h)
        /\ \E k \in 1..Len(hm[h].log) :
             hm[h].log[k].ev = "reply" /\ hm[h].log[k].text = "register-prompt"
        /\ Len(RequestsOfKind(hm[h], "upload")) = 1
        /\ RequestsOfKind(hm[h], "upload")[1].req.userEmail = "ann@example.com"

\* C3: a message whose author is a bot causes no forwarding call, no outbound
\* HTTP request and no reply, whatever its content, channel and attachments.
C3_BotMessagesIgnored ==
    \A h \in Handlers :
        (Began(h) /\ hm[h].msg.author.bot)
        => /\ hm[h].log = <<>>
           /\ Finished(h)

\* C3's case: a bot's !register message with attachments has been handled.
C3_Witness ==
    \E h \in Handlers :
        /\ Finished(h)
        /\ hm[h].msg.author.bot
        /\ hm[h].msg.content = RegisterCmd
        /\ Len(DeclaredImages(hm[h].msg)) > 0

\* C4: a non-bot, non-command message is dropped by the allow-list filter
\* exactly when it has a guildId, the allow-list is non-empty and the channel
\* id is not in it; a dropped message causes no forwarding call, and a message
\* that is not dropped and carries an image or forwardable text is forwarded.
C4_AllowListFilter ==
    \A h \in Handlers :
        LET f == hm[h]
        IN  (Began(h) /\ ~f.msg.author.bot /\ ~IsCommand(f.msg))
            => /\ f.filtered <=> FilterApplies(f.msg)
               /\ FilterApplies(f.msg) => (ForwardCalls(f) = <<>> /\ Finished(h))
               /\ IsDm(f.msg) => ~f.filtered
               /\ AllowList = {} => ~f.filtered
               /\ (~FilterApplies(f.msg) /\ Len(DeclaredImages(f.msg)) > 0)
                  => Len(ForwardAttachmentCalls(f)) > 0
               /\ ( /\ ~FilterApplies(f.msg)
                    /\ f.msg.attachments = <<>>
                    /\ f.msg.content \in {<<"h","i">>, <<" ","h","i"," ">>} )
                  => Len(ForwardCalls(f)) = 1

\* C4's case: a guild message with an image, outside a non-empty allow-list,
\* has been dropped.
C4_Witness ==
    \E h \in Handlers :
        /\ Finished(h)
        /\ hm[h].filtered
        /\ ~hm[h].msg.author.bot
        /\ ~IsDm(hm[h].msg)
        /\ Len(DeclaredImages(hm[h].msg)) > 0

\* C5: for a non-bot message whose content starts with !register, exactly one
\* OAuth-initiation POST with the author's id and username is issued when
\* nothing but blanks follows the command; with extra text a rejection reply is
\* sent and no POST is issued; no forwarding call is made in either case.
C5_RegisterCommand ==
    \A h \in Handlers :
        LET f == hm[h]
            oauth == RequestsOfKind(f, "oauthInit")
        IN  (Began(h) /\ ~f.msg.author.bot /\ StartsWith(f.msg.content, RegisterCmd))
            => /\ ForwardCalls(f) = <<>>
               /\ Requests(f) = oauth
               /\ IF f.msg.content \in {RegisterCmd, RegisterCmd \o <<" ">>}
                  THEN /\ Len(oauth) = 1
                       /\ oauth[1].req.discordId = f.msg.author.id
                       /\ oauth[1].req.discordUsername = f.msg.author.username
                       /\ \A k \in 1..Len(Replies(f)) :
                            Replies(f)[k].text # "register-rejection"
                  ELSE /\ oauth = <<>>
                       /\ Len(Replies(f)) > 0
                       /\ Replies(f)[1].text = "register-rejection"

\* C5's case: "!register " with an image attached ended with the OAuth link sent.
C5_Witness ==
    \E h \in Handlers :
        /\ Finished(h)
        /\ hm[h].msg.content = RegisterCmd \o <<" ">>
        /\ Len(DeclaredImages(hm[h].msg)) > 0
        /\ Len(RequestsOfKind(hm[h], "oauthInit")) = 1
        /\ Len(Replies(hm[h])) = 1
        /\ Replies(hm[h])[1].text = "oauth-link"

\* C6: for a non-bot, non-command message with attachments that passes the
\* allow-list filter, forwardAttachment is called exactly once per image
\* attachment, in order, with its URL and name, and never for another
\* attachment; a message without image attachments gets no reply.
C6_EachImageForwardedOnce ==
    \A h \in Handlers :
        LET f == hm[h]
            images == DeclaredImages(f.msg)
            calls == ForwardAttachmentCalls(f)
        IN  ( /\ Finished(h)
              /\ ~f.msg.author.bot
              /\ ~IsCommand(f.msg)
              /\ ~FilterApplies(f.msg)
              /\ Len(f.msg.attachments) > 0 )
            => /\ Len(calls) = Len(images)
               /\ \A k \in 1..Len(calls) :
                    /\ k <= Len(images)
                    /\ calls[k].call.url = images[k].url
                    /\ calls[k].call.name =
                         IF images[k].name = "" THEN None ELSE images[k].name
               /\ images = <<>> => f.log = <<>>

\* C7: at any time at most one client is live, each live client has exactly one
\* MessageCreate callback, and an inbound message is handled at most once.
C7_AtMostOneLiveClient ==
    /\ Cardinality({ k \in ClientIds : clientState[k] = "live" }) <= 1
    /\ \A k \in ClientIds : clientState[k] = "live" => listeners[k] = 1
    /\ dispatched <= 1

\* C8: when a start() call throws, isRunning is false and no client is retained.
C8_FailedStartLeavesStopped ==
    [][ \A c \in Calls :
          (call'[c] # call[c] /\ call'[c].op = "start" /\ call'[c].pc = "threw")
          => (isRunning' = FALSE /\ client' = 0) ]_vars

\* C9: when a stop() call returns, client is null and isRunning is false.
C9_StopLeavesStopped ==
    [][ \A c \in Calls :
          (call'[c] # call[c] /\ call'[c].op = "stop" /\ call'[c].pc = "returned")
          => (isRunning' = FALSE /\ client' = 0) ]_vars


\* C10: handleMessage's promise never rejects: whatever step fails, the
\* invocation ends resolved.
C10_HandlerNeverRejects ==
    \A h \in Handlers :
        /\ hm[h].result # "rejected"
        /\ Finished(h) => hm[h].result = "resolved"

\* C10's case: the reply made in handleRegistrationCommand's catch block was
\* itself rejected, and the invocation has ended.
C10_Witness ==
    \E h \in Handlers :
        /\ Finished(h)
        /\ \E k \in 1..Len(hm[h].errors) :
             hm[h].errors[k] = [at |-> "regCatchReply", by |-> "handleMessage"]


\* ------------------------------------------------- getUserEmail on its own

\* getUserEmail(discordId) is called: up to the await of its fetch.
GetUserEmailCalled(h) ==
    /\ hm[h].pc = "idle"
    /\ \E a \in Authors :
         hm' = [hm EXCEPT ![h] =
                 At(Request(Called(hm[h], [fn |-> "getUserEmail", discordId |-> a.id]),
                            [kind |-> "status", discordId |-> a.id]), "lookup")]
    /\ UNCHANGED <<env, lifecycleVars>>

\* The fetch settles with response r, which the log keeps: getUserEmail returns.
GetUserEmailSettles(h) ==
    /\ hm[h].pc = "lookup"
    /\ \E r \in StatusResponses :
         LET f == [Settled(hm[h]) EXCEPT !.log = Append(@, [ev |-> "response", res |-> r])]
             g == IF LookupThrows(r) THEN Threw(f, "lookup", "getUserEmail") ELSE f
         IN  hm' = [hm EXCEPT ![h] =
                 Return(Returned([g EXCEPT !.userEmail = GetUserEmail(r)],
                                 "getUserEmail", GetUserEmail(r)))]
    /\ UNCHANGED <<env, lifecycleVars>>

LookupNext == \E h \in Handlers : GetUserEmailCalled(h) \/ GetUserEmailSettles(h)

LookupSpec == Init /\ [][LookupNext]_vars

\* The response reports a registered user with an email under an HTTP-success
\* status.
ReportsRegisteredEmail(r) ==
    /\ r.kind = "response"
    /\ r.ok
    /\ r.body \notin {Malformed, JsonNull}
    /\ r.body.registered
    /\ r.body.email \notin {None, ""}

\* C11: getUserEmail returns an email only for an HTTP-success response whose
\* body reports registered = true with an email present, and then that email;
\* for every other outcome (fetch rejected, non-2xx status, malformed body,
\* registered = false, no email) it returns null, throws nothing and sends no
\* reply.
C11_LookupNullUnlessRegistered ==
    \A h \in Handlers :
        LET f == hm[h]
        IN  \A k \in 1..Len(f.log) :
              (f.log[k].ev = "return" /\ f.log[k].fn = "getUserEmail"
                 /\ k > 1 /\ f.log[k - 1].ev = "response")
              => LET r == f.log[k - 1].res
                     v == f.log[k].value
                 IN  /\ v # None => (ReportsRegisteredEmail(r) /\ v = r.body.email)
                     /\ ~ReportsRegisteredEmail(r) => v = None
                     /\ f.result = "resolved"
                     /\ Replies(f) = <<>>

\* C11's case: the status endpoint answered 500 with a body naming a registered
\* user and an email, and getUserEmail returned null.
C11_Witness ==
    \E h \in Handlers :
        /\ Finished(h)
        /\ Len(hm[h].log) = 4
        /\ hm[h].log[3].ev = "response"
        /\ hm[h].log[3].res.kind = "response"
        /\ ~hm[h].log[3].res.ok
        /\ hm[h].log[3].res.body =
             [success |-> TRUE, registered |-> TRUE, email |-> "ann@example.com"]
        /\ hm[h].log[4].value = None

\* The text the claim speaks of: the trimmed content, non-empty and not opening
\* with the command prefix.
ForwardableText(m) ==
    LET content == Trim(OrText(m.content, <<>>))
    IN  content # <<>> /\ ~StartsWith(content, CommandPrefix)

\* C12: a non-bot message with no attachments that is no recognized command
\* and passes the allow-list filter makes forwardText issue exactly one
\* receiver POST when its trimmed content is non-empty and does not start with
\* '!', and no HTTP request at all otherwise; no reply is sent in either case.
C12_TextForwardedOnceUnlessCommandLike ==
    \A h \in Handlers :
        LET f == hm[h]
            m == f.msg
        IN  (/\ Began(h)
             /\ ~m.author.bot
             /\ m.attachments = <<>>
             /\ ~IsCommand(m)
             /\ ~FilterApplies(m))
            => /\ Replies(f) = <<>>
               /\ Requests(f) = RequestsOfKind(f, "text")
               /\ Len(Requests(f)) = (IF ForwardableText(m) THEN 1 ELSE 0)

\* ------------------------------------------- two messages handled at once

\* Two handleMessage invocations: the event loop runs each one from an await
\* to its next await, in any order.
ConcurrentHandlers == {1, 2}

\* The invocations whose requests and replies are eventually answered; those
\* of the others may stay pending for ever.
Answered == {2}

\* A direct message with two images and a guild message with a document and
\* an image, from a human who may or may not be registered.
ConcurrentMessages ==
    { m \in Messages :
        /\ m.author = Human
        /\ m.channelId = <<"1">>
        /\ m.content = <<"h","i">>
        /\ \/ IsDm(m) /\ m.attachments = <<PngAtt, JpegAtt>>
           \/ ~IsDm(m) /\ m.attachments = <<PdfAtt, PngAtt>> }

ConcurrentInit ==
    /\ env \in { e \in ValidEnvs : e.ALLOWED_CHANNELS = NoText }
    /\ client = 1
    /\ isRunning = TRUE
    /\ clientState = [k \in ClientIds |-> IF k = 1 THEN "live" ELSE "none"]
    /\ listeners = [k \in ClientIds |-> IF k = 1 THEN 1 ELSE 0]
    /\ call = [c \in Calls |-> IdleCall]
    /\ dispatched = 0
    /\ hm = [h \in ConcurrentHandlers |-> IdleFrame]

\* Invocation h resumes from the await it is suspended at.
Resumes(h) ==
    \/ LookupResponds(h)
    \/ PromptReplySettles(h)
    \/ AttachmentResponds(h)
    \/ UploadResponds(h)
    \/ AckReplySettles(h)

ConcurrentNext ==
    \E h \in ConcurrentHandlers :
        MessageCreateAmong(h, ConcurrentMessages) \/ Resumes(h)

ConcurrentSpec ==
    /\ ConcurrentInit
    /\ [][ConcurrentNext]_vars
    /\ \A h \in Answered : WF_vars(Resumes(h))

\* The requests and replies of the invocation that have not settled yet.
InFlight(f) == Len(Requests(f)) + Len(Replies(f)) - f.settled

IsEvent(f, k, ev) == k \in 1..Len(f.log) /\ f.log[k].ev = ev
IsRequest(f, k, kind) == IsEvent(f, k, "request") /\ f.log[k].req.kind = kind
IsReturn(f, k, fn) == IsEvent(f, k, "return") /\ f.log[k].fn = fn
IsForwardAttachmentCall(f, k) ==
    IsEvent(f, k, "call") /\ f.log[k].call.fn = "forwardAttachment"

\* One invocation's steps in order: never two requests or replies in flight;
\* the attachment fetch is issued on getUserEmail's return, the upload next
\* after the fetch, and a further forwardAttachment call (whose first step is
\* the lookup) next after the previous one's return and, in a DM, its reply.
\* With at most one in flight, each was issued after the one before it settled.
Sequential(f) ==
    /\ InFlight(f) \in {0, 1}
    /\ InFlight(f) = 1 <=> f.pc \notin {"idle", "done"}
    /\ \A k \in 1..Len(f.log) :
         /\ IsRequest(f, k, "attachment")
              => IsReturn(f, k - 1, "getUserEmail") /\ IsRequest(f, k - 2, "status")
         /\ IsRequest(f, k, "upload") => IsRequest(f, k - 1, "attachment")
         /\ IsRequest(f, k, "status") => IsForwardAttachmentCall(f, k - 1)
         /\ (IsForwardAttachmentCall(f, k) /\ k > 1)
              => IF IsDm(f.msg)
                 THEN IsEvent(f, k - 1, "reply") /\ IsReturn(f, k - 2, "forwardAttachment")
                 ELSE IsReturn(f, k - 1, "forwardAttachment")

\* C13: within one message's handling the outbound steps are sequential
\* (lookup, then fetch, then upload, then the reply, then the next
\* attachment's lookup, never two in flight); the steps of two messages
\* interleave, and a message whose own requests are answered is handled to
\* completion even if the other message's request stays pending for ever.
C13_SequentialWithinInterleavedAcross ==
    /\ [](\A h \in ConcurrentHandlers : Sequential(hm[h]))
    /\ \A h \in Answered : Began(h) ~> Finished(h)

\* C13's case: invocation 1 is still waiting for the upload of its first
\* attachment while invocation 2 has uploaded both of its attachments, sent
\* both acknowledgments and returned.
C13_Witness ==
    /\ hm[1].pc = "upload"
    /\ Len(RequestsOfKind(hm[1], "upload")) = 1
    /\ Finished(2)
    /\ Len(RequestsOfKind(hm[2], "upload")) = 2
    /\ Len(Replies(hm[2])) = 2
    /\ InFlight(hm[2]) = 0

=============================================================================
